---- MODULE Spec2Model ----
(***************************************************************************)
(* Model of journal_app.py: the SQLite-backed JournalDatabase, the pure    *)
(* generate_advice function and the Tk JournalApp handlers.                *)
(*                                                                         *)
(* Python strings are TLA+ strings.  The typographic apostrophe (U+2019)   *)
(* and the em dash (U+2014) of the advice messages are written ' and -,    *)
(* because the module is ASCII; nothing in the program inspects them.      *)
(* Python's None is <<>> where a row is expected (both are falsy) and the  *)
(* reserved string NoMood where a mood string is expected.                 *)
(***************************************************************************)
EXTENDS Integers, Sequences, FiniteSets, TLC

VARIABLES
    table_exists,     \* journal.db holds the table "entries"
    entries,          \* rows of table "entries" in journal.db
    sqlite_sequence,  \* AUTOINCREMENT high-water mark kept by SQLite
    issued,           \* history: every id a successful INSERT generated
    db_call,          \* history: the last method call of a direct caller (DbSpec)
    running,          \* a JournalApp exists and its mainloop is running
    mood_var,         \* self.mood_var
    answer_texts,     \* contents of the three tk.Text answer widgets
    advice_text,      \* contents of self.advice_text
    detail_text,      \* contents of self.detail_text
    entries_metadata, \* self.entries_metadata
    listbox,          \* items of self.entries_listbox
    timer,            \* a reminder callback is scheduled with root.after
    event,            \* history: outcome of the last handler that ran
    adv_mood,         \* argument mood of a direct generate_advice call
    adv_text,         \* argument text of a direct generate_advice call
    adv_result        \* its return value

dbvars  == <<table_exists, entries, sqlite_sequence, issued, db_call>>
uivars  == <<running, mood_var, answer_texts, advice_text, detail_text,
             entries_metadata, listbox, timer, event>>
advvars == <<adv_mood, adv_text, adv_result>>
vars    == <<table_exists, entries, sqlite_sequence, issued, db_call,
             running, mood_var, answer_texts, advice_text, detail_text, entries_metadata,
             listbox, timer, event,
             adv_mood, adv_text, adv_result>>

---------------------------------------------------------------------------
(* Bounds *)

MaxEntries ==
    2

MaxRows ==
    3

MaxFrags ==
    2

---------------------------------------------------------------------------
(* Python values and string methods *)

None ==
    <<>>

NoMood ==
    "<None>"

Whitespace ==
    {" ", "\n", "\t", "\r"}

UpperToLower ==
    [A |-> "a", B |-> "b", C |-> "c", D |-> "d", E |-> "e", F |-> "f",
     G |-> "g", H |-> "h", I |-> "i", J |-> "j", K |-> "k", L |-> "l",
     M |-> "m", N |-> "n", O |-> "o", P |-> "p", Q |-> "q", R |-> "r",
     S |-> "s", T |-> "t", U |-> "u", V |-> "v", W |-> "w", X |-> "x",
     Y |-> "y", Z |-> "z"]

LowerChar(c) ==
    IF c \in DOMAIN UpperToLower THEN UpperToLower[c] ELSE c

RECURSIVE lower(_)
lower(s) ==
    IF s = "" THEN "" ELSE LowerChar(Head(s)) \o lower(Tail(s))

RECURSIVE lstrip(_)
lstrip(s) ==
    IF s = "" THEN ""
    ELSE IF Head(s) \in Whitespace THEN lstrip(Tail(s)) ELSE s

RECURSIVE rstrip(_)
rstrip(s) ==
    IF s = "" THEN ""
    ELSE IF SubSeq(s, Len(s), Len(s)) \in Whitespace
         THEN rstrip(SubSeq(s, 1, Len(s) - 1))
         ELSE s

strip(s) ==
    rstrip(lstrip(s))

\* Python's "sub in s"
In(sub, s) ==
    \E i \in 1..(Len(s) - Len(sub) + 1) : SubSeq(s, i, i + Len(sub) - 1) = sub

\* join that forgets the separator
RECURSIVE join_NoSeparator(_, _)
join_NoSeparator(sep, xs) ==
    IF xs = <<>> THEN "" ELSE xs[1] \o join_NoSeparator(sep, Tail(xs))

\* Python's " ".join(xs)
RECURSIVE join(_, _)
join(sep, xs) ==
    IF xs = <<>> THEN ""
    ELSE IF Len(xs) = 1 THEN xs[1]
    ELSE xs[1] \o sep \o join(sep, Tail(xs))

---------------------------------------------------------------------------
(* generate_advice *)

mood_based ==
    [m \in {"Very Happy", "Happy", "Neutral", "Sad", "Very Sad", "Stressed",
            "Anxious", "Not specified"} |->
       CASE m = "Very Happy" -> "You seem to be in a really good place today. Take a moment to appreciate what's going well and think about how you can keep that going."
         [] m = "Happy" -> "You're feeling pretty good today. Try to note the small things that made you feel this way so you can revisit them on tougher days."
         [] m = "Neutral" -> "You're feeling neutral. That's okay. Maybe pick one small thing you're grateful for or something you're looking forward to."
         [] m = "Sad" -> "You're feeling sad today. Be gentle with yourself-try to do one kind thing for yourself and maybe reach out to someone you trust."
         [] m = "Very Sad" -> "You're really down right now. It might help to talk to a close friend, family member, or a professional. You don't have to carry everything alone."
         [] m = "Stressed" -> "You're feeling stressed. Try to break your tasks into smaller steps, and give yourself permission to rest between them."
         [] m = "Anxious" -> "You're feeling anxious. Slow, deep breaths and grounding yourself in the present moment can help. Focus on what you can control right now."
         [] m = "Not specified" -> "You didn't choose a mood, but your writing still matters. You're taking time to understand yourself-that's already a big step."]

\* A lookup that ignores letter case
DictGet_IgnoreCase(d, key, default) ==
    IF \E k \in DOMAIN d : lower(k) = lower(key)
    THEN d[CHOOSE k \in DOMAIN d : lower(k) = lower(key)]
    ELSE default

\* dict.get(key, default)
DictGet(d, key, default) ==
    IF key \in DOMAIN d THEN d[key] ELSE default

TiredAdvice ==
    "\n\nYou mentioned feeling tired. Try to prioritize rest tonight, even if it's just going to bed a bit earlier or taking a short break."

OverwhelmedAdvice ==
    "\n\nFeeling overwhelmed is a signal to slow down. Break things into tiny steps and tackle them one at a time."

LonelyAdvice ==
    "\n\nYou also mentioned feeling alone. Consider reaching out to someone you trust or doing something comforting that makes you feel connected."

ProudAdvice ==
    "\n\nYou noticed something you're proud of-celebrate that! Acknowledge your progress instead of skipping past it."

\* generate_advice with the loneliness test before the overwhelm test
generate_advice_LonelyFirst(mood, text) ==
    LET text_lower == lower(text)
        advice0 == DictGet(mood_based, mood, mood_based["Not specified"])
        advice1 == IF In("tired", text_lower) \/ In("exhausted", text_lower)
                   THEN advice0 \o TiredAdvice ELSE advice0
        advice2 == IF In("lonely", text_lower) \/ In("alone", text_lower)
                   THEN advice1 \o LonelyAdvice ELSE advice1
        advice3 == IF In("overwhelmed", text_lower) \/ In("too much", text_lower)
                   THEN advice2 \o OverwhelmedAdvice ELSE advice2
        advice4 == IF In("proud", text_lower) \/ In("accomplished", text_lower)
                   THEN advice3 \o ProudAdvice ELSE advice3
    IN  advice4

generate_advice(mood, text) ==
    LET text_lower == lower(text)
        advice0 == DictGet(mood_based, mood, mood_based["Not specified"])
        advice1 == IF In("tired", text_lower) \/ In("exhausted", text_lower)
                   THEN advice0 \o TiredAdvice ELSE advice0
        advice2 == IF In("overwhelmed", text_lower) \/ In("too much", text_lower)
                   THEN advice1 \o OverwhelmedAdvice ELSE advice1
        advice3 == IF In("lonely", text_lower) \/ In("alone", text_lower)
                   THEN advice2 \o LonelyAdvice ELSE advice2
        advice4 == IF In("proud", text_lower) \/ In("accomplished", text_lower)
                   THEN advice3 \o ProudAdvice ELSE advice3
    IN  advice4

---------------------------------------------------------------------------
(* JournalDatabase *)

Ids(tbl) ==
    {r[1] : r \in tbl}

SetMax(S) ==
    CHOOSE x \in S : \A y \in S : y <= x

\* INTEGER PRIMARY KEY AUTOINCREMENT: one more than the largest rowid that
\* has ever existed in the table.
NextRowid(tbl, seq) ==
    SetMax(Ids(tbl) \cup {seq}) + 1

\* An INSERT that binds q1 and q2 to each other's column
InsertRow_SwapAnswers(tbl, seq, date, mood, q1, q2, q3, advice) ==
    tbl \cup {<<NextRowid(tbl, seq), date, mood, q2, q1, q3, advice>>}

\* The INSERT of add_entry followed by its commit.
InsertRow(tbl, seq, date, mood, q1, q2, q3, advice) ==
    tbl \cup {<<NextRowid(tbl, seq), date, mood, q1, q2, q3, advice>>}

\* The summaries in ascending order of id (ORDER BY id)
RECURSIVE get_all_entries_Ascending(_)
get_all_entries_Ascending(tbl) ==
    IF tbl = {} THEN <<>>
    ELSE LET r == CHOOSE r \in tbl : \A o \in tbl : r[1] <= o[1]
         IN  <<(<<r[1], r[2], r[3]>>)>> \o get_all_entries_Ascending(tbl \ {r})

\* "SELECT id, date, mood FROM entries ORDER BY id DESC" + fetchall()
RECURSIVE get_all_entries(_)
get_all_entries(tbl) ==
    IF tbl = {} THEN <<>>
    ELSE LET r == CHOOSE r \in tbl : \A o \in tbl : o[1] <= r[1]
         IN  <<(<<r[1], r[2], r[3]>>)>> \o get_all_entries(tbl \ {r})

\* A lookup with "WHERE id >= ?": the first row at or after the id
get_entry_AtLeast(tbl, entry_id) ==
    IF \E r \in tbl : r[1] >= entry_id
    THEN CHOOSE r \in tbl : r[1] >= entry_id /\ \A o \in tbl : o[1] >= entry_id => r[1] <= o[1]
    ELSE None

\* "SELECT * FROM entries WHERE id = ?" + fetchone()
get_entry(tbl, entry_id) ==
    IF \E r \in tbl : r[1] = entry_id
    THEN CHOOSE r \in tbl : r[1] = entry_id
    ELSE None


\* A create_table that drops and recreates the table
create_table_Recreate(exists, tbl) ==
    {}

\* "CREATE TABLE IF NOT EXISTS entries (...)": the rows the table holds
\* afterwards.
create_table(exists, tbl) ==
    IF exists THEN tbl ELSE {}

\* add_entry when neither statement raises: the store after the commit.
add_entry(date, mood, q1, q2, q3, advice) ==
    /\ entries' = InsertRow(entries, sqlite_sequence, date, mood, q1, q2, q3, advice)
    /\ sqlite_sequence' = NextRowid(entries, sqlite_sequence)
    /\ issued' = issued \cup {NextRowid(entries, sqlite_sequence)}
    /\ UNCHANGED table_exists

\* add_entry when execute or commit raises: the exception leaves the method
\* and the store is as it was.
add_entry_raises ==
    UNCHANGED <<table_exists, entries, sqlite_sequence, issued>>

\* Record of one JournalDatabase method call: its arguments, the value it
\* returned (None for a method without a return statement), the statement
\* that raised ("" when none did) and, for an INSERT, cursor.lastrowid.
Call(op, args, result, raised, lastrowid) ==
    [op |-> op, args |-> args, result |-> result, raised |-> raised,
     lastrowid |-> lastrowid]

NoCall ==
    Call("", <<>>, None, "", 0)

\* How one add_entry call can end: both statements succeed, execute raises
\* (the statement is undone) or commit raises (the transaction is rolled
\* back; the connection is the file's only user).
Outcomes ==
    {"ok", "execute", "commit"}

---------------------------------------------------------------------------
(* JournalApp *)

mood_options ==
    <<"Very Happy", "Happy", "Neutral", "Sad", "Very Sad", "Stressed", "Anxious">>

questions ==
    <<"1. What are you feeling right now?",
      "2. What is something that went well today?",
      "3. Is there anything bothering you at the moment?">>

\* f"{mood}" of a mood column value
MoodStr(mood) ==
    IF mood = NoMood THEN "None" ELSE mood

\* tk.Text.get("1.0", "end"): the content and the widget's final newline
TextGet(content) ==
    content \o "\n"

\* The listbox lines load_entries_list inserts for the fetched summaries.
RECURSIVE ListboxItems(_)
ListboxItems(metadata) ==
    IF metadata = <<>> THEN <<>>
    ELSE <<metadata[1][2] \o " - " \o MoodStr(metadata[1][3])>>
         \o ListboxItems(Tail(metadata))

\* The text on_entry_select builds for a fetched row.
Details(entry) ==
    "Date: " \o entry[2] \o "\n"
    \o "Mood: " \o MoodStr(entry[3]) \o "\n\n"
    \o questions[1] \o "\n" \o entry[4] \o "\n\n"
    \o questions[2] \o "\n" \o entry[5] \o "\n\n"
    \o questions[3] \o "\n" \o entry[6] \o "\n\n"
    \o "Advice:\n" \o entry[7]

\* The stripped contents of the three answer widgets (save_entry's loop).
Answers(texts) ==
    [i \in 1..3 |-> strip(TextGet(texts[i]))]

\* A check that rejects the entry when any answer is blank
AllBlank_Any(answers) ==
    \E i \in 1..3 : answers[i] = ""

\* save_entry's "all(ans == '' for ans in answers)"
AllBlank(answers) ==
    \A i \in 1..3 : answers[i] = ""

\* self.mood_var.get() or "Not specified"
MoodOrDefault(m) ==
    IF m # "" THEN m ELSE "Not specified"

\* A load_entries_list that keeps the list it has
load_entries_list_Stale ==
    UNCHANGED <<entries_metadata, listbox>>

\* load_entries_list: fetch the summaries and refill the listbox.
load_entries_list ==
    /\ entries_metadata' = get_all_entries(entries')
    /\ listbox' = ListboxItems(entries_metadata')

---------------------------------------------------------------------------
(* Inputs *)

\* Values of datetime.now().strftime("%Y-%m-%d")
Dates ==
    {"2026-11-04"}

\* Combobox choices the user makes
MoodChoices ==
    {"Neutral", "Sad"}

\* What the user types into the three answer widgets
Forms ==
    { <<"", "", "">>,
      <<" ", "\n\t", "">>,
      <<"  Tired ", "", "">>,
      <<"too", "much\n", "ALONE ">> }

---------------------------------------------------------------------------
(* The application: JournalApp driven by its user *)

\* Before the first launch: no journal.db and no process.
NoWindow ==
    /\ running = FALSE
    /\ mood_var = ""
    /\ answer_texts = <<"", "", "">>
    /\ advice_text = ""
    /\ detail_text = ""
    /\ entries_metadata = <<>>
    /\ listbox = <<>>
    /\ timer = FALSE

NoAdviceCall ==
    /\ adv_mood = ""
    /\ adv_text = ""
    /\ adv_result = ""

Init ==
    /\ table_exists = FALSE
    /\ entries = {}
    /\ sqlite_sequence = 0
    /\ issued = {}
    /\ db_call = NoCall
    /\ NoWindow
    /\ event = "none"
    /\ NoAdviceCall

\* main(): JournalApp.__init__ = JournalDatabase() with create_table,
\* build_entry_tab, build_history_tab, load_entries_list, schedule_reminder.
Startup ==
    /\ ~running
    /\ running' = TRUE
    /\ table_exists' = TRUE
    /\ entries' = create_table(table_exists, entries)
    /\ mood_var' = "Neutral"
    /\ answer_texts' = <<"", "", "">>
    /\ advice_text' = ""
    /\ detail_text' = ""
    /\ load_entries_list
    /\ timer' = TRUE
    /\ event' = "startup"
    /\ UNCHANGED <<sqlite_sequence, issued, db_call>>
    /\ UNCHANGED advvars

\* The user closes the window: mainloop returns and the process ends.
Close ==
    /\ running
    /\ running' = FALSE
    /\ mood_var' = ""
    /\ answer_texts' = <<"", "", "">>
    /\ advice_text' = ""
    /\ detail_text' = ""
    /\ entries_metadata' = <<>>
    /\ listbox' = <<>>
    /\ timer' = FALSE
    /\ event' = "closed"
    /\ UNCHANGED dbvars
    /\ UNCHANGED advvars

\* The user picks a mood in the read-only combobox.
SelectMood(m) ==
    /\ running
    /\ m \in {mood_options[i] : i \in DOMAIN mood_options}
    /\ mood_var' = m
    /\ UNCHANGED <<answer_texts, advice_text, detail_text, entries_metadata,
                   listbox, timer, event, running>>
    /\ UNCHANGED dbvars
    /\ UNCHANGED advvars

\* The user edits the answer widgets.
TypeAnswers(f) ==
    /\ running
    /\ answer_texts' = f
    /\ UNCHANGED <<mood_var, advice_text, detail_text, entries_metadata,
                   listbox, timer, event, running>>
    /\ UNCHANGED dbvars
    /\ UNCHANGED advvars

\* show_reminder_popup, run by the timer schedule_reminder set.
ShowReminder ==
    /\ running
    /\ timer
    /\ event' = "reminder"
    /\ timer' = TRUE
    /\ UNCHANGED <<mood_var, answer_texts, advice_text, detail_text,
                   entries_metadata, listbox, running>>
    /\ UNCHANGED dbvars
    /\ UNCHANGED advvars

\* save_entry stopped by the empty-entry check.
SaveBlocked ==
    /\ event' = "blocked"
    /\ UNCHANGED <<mood_var, answer_texts, advice_text, detail_text,
                   entries_metadata, listbox, timer, running>>
    /\ UNCHANGED dbvars

\* A failed save whose INSERT stays in the table
SaveFailed_RowKept(args, at) ==
    /\ add_entry(args[1], args[2], args[3], args[4], args[5], args[6])
    /\ event' = "save_failed"
    /\ UNCHANGED db_call
    /\ UNCHANGED <<mood_var, answer_texts, advice_text, detail_text,
                   entries_metadata, listbox, timer, running>>

\* save_entry ended by the exception add_entry raised at statement `at`.
SaveFailed(args, at) ==
    /\ add_entry_raises
    /\ event' = "save_failed"
    /\ UNCHANGED db_call
    /\ UNCHANGED <<mood_var, answer_texts, advice_text, detail_text,
                   entries_metadata, listbox, timer, running>>

\* save_entry after add_entry returned: show the advice, clear the answer
\* widgets, load_entries_list.
SaveDone(args, advice) ==
    /\ sqlite_sequence < MaxEntries
    /\ add_entry(args[1], args[2], args[3], args[4], args[5], args[6])
    /\ advice_text' = advice
    /\ answer_texts' = <<"", "", "">>
    /\ load_entries_list
    /\ event' = "saved"
    /\ UNCHANGED <<db_call, mood_var, detail_text, timer, running>>

\* The "Save Entry" button: save_entry.
SaveEntry(date_str, outcome) ==
    /\ running
    /\ LET mood == MoodOrDefault(mood_var)
           answers == Answers(answer_texts)
           combined_text == join(" ", answers)
           advice == generate_advice(mood, combined_text)
           args == <<date_str, mood, answers[1], answers[2], answers[3], advice>>
       IN  IF AllBlank(answers)
           THEN SaveBlocked
           ELSE IF outcome = "ok"
                THEN SaveDone(args, advice)
                ELSE SaveFailed(args, outcome)
    /\ UNCHANGED advvars

\* <<ListboxSelect>>: on_entry_select, where curselection() returns sel (empty,
\* or one 0-based position).
OnEntrySelect(sel) ==
    /\ running
    /\ IF sel = <<>>
       THEN /\ event' = "no_selection"
            /\ UNCHANGED detail_text
       ELSE LET index == sel[1]
                entry_id == entries_metadata[index + 1][1]
                entry == get_entry(entries, entry_id)
            IN  IF entry = <<>>
                THEN /\ event' = "absent"
                     /\ UNCHANGED detail_text
                ELSE /\ event' = "selected"
                     /\ detail_text' = Details(entry)
    /\ UNCHANGED dbvars
    /\ UNCHANGED <<mood_var, answer_texts, advice_text, entries_metadata,
                   listbox, timer, running>>
    /\ UNCHANGED advvars

\* The selections the listbox can report: none, or one of its items.
Selections ==
    {<<>>} \cup {<<i>> : i \in 0..(Len(listbox) - 1)}

Next ==
    \/ Startup
    \/ Close
    \/ \E m \in MoodChoices : SelectMood(m)
    \/ \E f \in Forms : TypeAnswers(f)
    \/ \E d \in Dates, o \in Outcomes : SaveEntry(d, o)
    \/ \E sel \in Selections : OnEntrySelect(sel)
    \/ ShowReminder

Spec ==
    Init /\ [][Next]_vars

---------------------------------------------------------------------------
(* The application beside another writer of journal.db *)

\* Another program deletes a row of journal.db (the application has no
\* delete of its own).  SQLite keeps sqlite_sequence, so the id is not
\* generated again.
ExternalDelete(id) ==
    /\ table_exists
    /\ id \in Ids(entries)
    /\ entries' = {r \in entries : r[1] # id}
    /\ UNCHANGED <<table_exists, sqlite_sequence, issued, db_call>>
    /\ UNCHANGED uivars
    /\ UNCHANGED advvars

SharedNext ==
    \/ Next
    \/ \E id \in 1..(MaxEntries + 1) : ExternalDelete(id)

SharedFileSpec ==
    Init /\ [][SharedNext]_vars

---------------------------------------------------------------------------
(* JournalDatabase driven by an arbitrary caller *)

\* Argument tuples (date, mood, q1, q2, q3, advice) of add_entry
DbArgs ==
    { <<"2026-11-03", "Sad", "a1", "a2", "a3", "adv">>,
      <<"2026-11-04", NoMood, "", "", "", "">>,
      <<"2026-11-04", "sad", "a2", "a1", "", "adv">>,
      <<"2026-11-03", "Happy", "", "a3", "a1", "other">> }

\* Identifiers a caller may ask get_entry for
DbIds ==
    0..(MaxRows + 1)

\* JournalDatabase(): connect and create_table on a new journal.db
DbInit ==
    /\ table_exists = TRUE
    /\ entries = {}
    /\ sqlite_sequence = 0
    /\ issued = {}
    /\ db_call = Call("create_table", <<>>, None, "", 0)
    /\ NoWindow
    /\ event = "none"
    /\ NoAdviceCall

DbCreateTable ==
    /\ table_exists' = TRUE
    /\ entries' = create_table(table_exists, entries)
    /\ db_call' = Call("create_table", <<>>, None, "", 0)
    /\ UNCHANGED <<sqlite_sequence, issued>>
    /\ UNCHANGED uivars
    /\ UNCHANGED advvars

DbAddEntry(args, outcome) ==
    /\ IF outcome = "ok"
       THEN /\ sqlite_sequence < MaxRows
            /\ add_entry(args[1], args[2], args[3], args[4], args[5], args[6])
            /\ db_call' = Call("add_entry", args, None, "",
                               NextRowid(entries, sqlite_sequence))
       ELSE /\ add_entry_raises
            /\ db_call' = Call("add_entry", args, None, outcome, 0)
    /\ UNCHANGED uivars
    /\ UNCHANGED advvars

DbGetAllEntries ==
    /\ db_call' = Call("get_all_entries", <<>>, get_all_entries(entries), "", 0)
    /\ UNCHANGED <<table_exists, entries, sqlite_sequence, issued>>
    /\ UNCHANGED uivars
    /\ UNCHANGED advvars

DbGetEntry(entry_id) ==
    /\ db_call' = Call("get_entry", <<entry_id>>, get_entry(entries, entry_id), "", 0)
    /\ UNCHANGED <<table_exists, entries, sqlite_sequence, issued>>
    /\ UNCHANGED uivars
    /\ UNCHANGED advvars

DbNext ==
    \/ DbCreateTable
    \/ \E args \in DbArgs, o \in Outcomes : DbAddEntry(args, o)
    \/ DbGetAllEntries
    \/ \E id \in DbIds : DbGetEntry(id)

DbSpec ==
    DbInit /\ [][DbNext]_vars

---------------------------------------------------------------------------
(* generate_advice called directly *)

\* Pieces of text; a text is up to MaxFrags of them in a row.
Fragments ==
    { "tired", "Exhausted", "overwhelmed", "Too Much", "too", " much",
      "lonely", "ALONE", "proud", "Accomplished", " ", "tire", "d.",
      "I felt tired and alone today", "Proud yet overwhelmed " }

RECURSIVE TextsOf(_)
TextsOf(n) ==
    IF n = 0 THEN {""}
    ELSE LET shorter == TextsOf(n - 1)
         IN  shorter \cup {t \o f : t \in shorter, f \in Fragments}

Texts ==
    TextsOf(MaxFrags)

\* Moods a caller may pass: the table's keys, None, and strings that are
\* no key (other letter case, unknown, empty).
MoodInputs ==
    DOMAIN mood_based \cup {NoMood, "sad", "VERY HAPPY", "not specified", "Excited", ""}

AdviceInit ==
    /\ table_exists = FALSE
    /\ entries = {}
    /\ sqlite_sequence = 0
    /\ issued = {}
    /\ db_call = NoCall
    /\ NoWindow
    /\ event = "none"
    /\ adv_mood \in MoodInputs
    /\ adv_text \in Texts
    /\ adv_result = ""

GenerateAdvice ==
    /\ adv_result = ""
    /\ adv_result' = generate_advice(adv_mood, adv_text)
    /\ UNCHANGED <<adv_mood, adv_text>>
    /\ UNCHANGED dbvars
    /\ UNCHANGED uivars

AdviceNext ==
    GenerateAdvice

AdviceSpec ==
    AdviceInit /\ [][AdviceNext]_vars

---------------------------------------------------------------------------
(* Properties of the store *)

\* The (id, date, mood) projection of a row
Summary(r) ==
    <<r[1], r[2], r[3]>>

\* C1 as stated: a successful add_entry returns the identifier it
\* generated, that identifier was generated by no earlier add_entry, and
\* get_entry of it returns the six values passed in.
C1_Original ==
    (db_call.op = "add_entry" /\ db_call.raised = "")
    => /\ db_call.result # None
       /\ db_call.result = db_call.lastrowid
       /\ get_entry(entries, db_call.lastrowid) = <<db_call.lastrowid>> \o db_call.args

\* C1 as amended: an add_entry that does not raise returns None; the store
\* gives the new row an identifier that no earlier add_entry generated and
\* no row holds, and get_entry of that identifier right afterwards returns
\* a row whose date, mood, three answers and advice are the values passed in.
C1_RoundTrip ==
    [][\A args \in DbArgs :
         DbAddEntry(args, "ok")
         => LET id == db_call'.lastrowid
            IN  /\ db_call'.result = None
                /\ id \notin issued
                /\ id \notin Ids(entries)
                /\ id \in issued'
                /\ get_entry(entries', id) = <<id>> \o args]_vars

C1_Witness ==
    /\ db_call.op = "add_entry"
    /\ db_call.raised = ""
    /\ db_call.lastrowid = 3
    /\ db_call.args[2] = NoMood
    /\ Cardinality(entries) = 3
    /\ get_entry(entries, 3) = <<3>> \o db_call.args

\* C3: get_all_entries returns exactly one (id, date, mood) tuple per stored
\* row and nothing else, ordered by id strictly descending (the latest
\* insert first), the empty sequence for an empty table, and leaves the
\* store unchanged.
C3_ListSummaries ==
    [][DbGetAllEntries
       => LET res == db_call'.result
          IN  /\ db_call'.op = "get_all_entries"
              /\ <<table_exists, entries, sqlite_sequence>>' =
                 <<table_exists, entries, sqlite_sequence>>
              /\ Len(res) = Cardinality(entries)
              /\ \A r \in entries : \E i \in 1..Len(res) : res[i] = Summary(r)
              /\ \A i \in 1..Len(res) : \E r \in entries : res[i] = Summary(r)
              /\ \A i, j \in 1..Len(res) : i < j => res[i][1] > res[j][1]
              /\ (entries = {} => res = <<>>)]_vars

C3_Witness ==
    /\ db_call.op = "get_all_entries"
    /\ Cardinality(entries) = 3
    /\ Len(db_call.result) = 3
    /\ db_call.result[1][1] = 3
    /\ db_call.result[3][1] = 1
    /\ db_call.result[1][2] # db_call.result[3][2]

---------------------------------------------------------------------------
(* Properties of the application *)

\* No two rows share an id
UniqueIds ==
    \A r, o \in entries : r[1] = o[1] => r = o

\* C2: the journal is append-only.  In every state the row ids are pairwise
\* distinct, and every step of the program (startup with create_table, close,
\* save, selection, reminder, editing) keeps every row with its id and its
\* fields, and gives a row it adds an id larger than every existing one and
\* every one generated before.
C2_AppendOnly ==
    /\ []UniqueIds
    /\ [][/\ entries \subseteq entries'
          /\ \A r \in entries' \ entries :
               /\ \A o \in entries : o[1] < r[1]
               /\ \A id \in issued : id < r[1]]_vars

C2_Witness ==
    /\ running
    /\ event = "startup"
    /\ Cardinality(entries) = 2
    /\ Ids(entries) = {1, 2}

\* get_entry finds no row for an id never generated or no longer stored
AbsentIds ==
    \A id \in 0..(MaxEntries + 2) :
        (id \notin issued \/ id \notin Ids(entries))
        => get_entry(entries, id) = None

\* C4: get_entry of an identifier that no add_entry generated, or that no
\* row holds, returns None (it does not raise); and a selection whose row is
\* absent leaves the detail view, the rest of the interface and the store
\* as they were.
C4_AbsentNoOp ==
    /\ []AbsentIds
    /\ [][\A sel \in Selections :
            (OnEntrySelect(sel) /\ sel # <<>>
             /\ entries_metadata[sel[1] + 1][1] \notin Ids(entries))
            => /\ event' = "absent"
               /\ detail_text' = detail_text
               /\ entries' = entries
               /\ <<mood_var, answer_texts, advice_text, entries_metadata, listbox>>'
                  = <<mood_var, answer_texts, advice_text, entries_metadata, listbox>>]_vars

C4_Witness ==
    /\ event = "absent"
    /\ detail_text # ""
    /\ entries = {}
    /\ Len(entries_metadata) = 2

\* A string all of whose characters are white space
OnlyWhitespace(str) ==
    \A k \in 1..Len(str) : SubSeq(str, k, k) \in {" ", "\n", "\t", "\r"}

FormIsBlank ==
    \A i \in 1..3 : OnlyWhitespace(answer_texts[i])

NoBlankEntry ==
    \A r \in entries : ~(r[4] = "" /\ r[5] = "" /\ r[6] = "")

\* C7 as stated: save_entry appends a record if and only if at least one
\* stripped answer is non-empty (exactly one record then, and nothing at all
\* changes when all three are blank), so no stored entry is all blank.
C7_Original ==
    /\ []NoBlankEntry
    /\ [][\A d \in Dates, o \in Outcomes :
            SaveEntry(d, o)
            => /\ FormIsBlank
                  => UNCHANGED <<entries, advice_text, answer_texts>>
               /\ ~FormIsBlank
                  => /\ entries \subseteq entries'
                     /\ Cardinality(entries' \ entries) = 1]_vars

\* C7 as amended: save_entry calls add_entry if and only if at least one
\* stripped answer is non-empty.  When all three are blank nothing is
\* appended and the store, the advice display and the answer fields are
\* unchanged; when one is non-blank and add_entry does not raise, exactly
\* one record is appended; when add_entry raises, none is.  No stored entry
\* has all three answers blank.
C7_SaveGuard ==
    /\ []NoBlankEntry
    /\ [][\A d \in Dates, o \in Outcomes :
            SaveEntry(d, o)
            => /\ FormIsBlank
                  => /\ UNCHANGED <<entries, advice_text, answer_texts>>
                     /\ event' = "blocked"
               /\ (~FormIsBlank /\ o = "ok")
                  => /\ entries \subseteq entries'
                     /\ Cardinality(entries' \ entries) = 1
                     /\ event' = "saved"
               /\ (~FormIsBlank /\ o # "ok")
                  => /\ entries' = entries
                     /\ event' = "save_failed"]_vars

C7_Witness ==
    /\ event = "blocked"
    /\ answer_texts = <<" ", "\n\t", "">>
    /\ Cardinality(entries) = 1
    /\ \E r \in entries : r[4] = "Tired" /\ r[5] = "" /\ r[6] = ""
    /\ advice_text # ""

\* C8: when add_entry raises during a save, the exception ends save_entry
\* (one attempt, no retry): no record is added, the answer fields are not
\* cleared, the advice display and the displayed list are not changed, and
\* the store is exactly the store before the save.
C8_FailedSave ==
    [][\A d \in Dates, o \in Outcomes \ {"ok"} :
         (SaveEntry(d, o) /\ ~FormIsBlank)
         => /\ event' = "save_failed"
            /\ <<table_exists, entries, sqlite_sequence>>' =
               <<table_exists, entries, sqlite_sequence>>
            /\ answer_texts' = answer_texts
            /\ advice_text' = advice_text
            /\ entries_metadata' = entries_metadata
            /\ listbox' = listbox]_vars

C8_Witness ==
    /\ event = "save_failed"
    /\ Cardinality(entries) = 1
    /\ answer_texts = <<"too", "much\n", "ALONE ">>
    /\ Len(entries_metadata) = 1

\* The advice generate_advice gives for a stored row's own mood and answers
RowAdvice(r) ==
    generate_advice(r[3], r[4] \o " " \o r[5] \o " " \o r[6])

AdviceFrozen ==
    \A r \in entries :
        /\ r[7] = RowAdvice(r)
        /\ \A k \in 4..6 : r[k] = "" \/ (~OnlyWhitespace(SubSeq(r[k], 1, 1))
                                         /\ ~OnlyWhitespace(SubSeq(r[k], Len(r[k]), Len(r[k]))))

\* Whether text ends with suffix
EndsWith(text, suffix) ==
    /\ Len(suffix) <= Len(text)
    /\ SubSeq(text, Len(text) - Len(suffix) + 1, Len(text)) = suffix

\* C9: advice is frozen at write time.  Every stored entry's advice is
\* generate_advice of its own stored mood and its stored, stripped answers
\* joined by single spaces; a save shows in the advice display the string it
\* stores; and a selection renders the stored advice verbatim and leaves
\* the store unchanged.
C9_AdviceFrozen ==
    /\ []AdviceFrozen
    /\ [][/\ \A d \in Dates :
               (SaveEntry(d, "ok") /\ ~FormIsBlank)
               => \E r \in entries' \ entries : advice_text' = r[7]
          /\ \A sel \in Selections :
               (OnEntrySelect(sel) /\ event' = "selected")
               => /\ entries' = entries
                  /\ \E r \in entries :
                       /\ r[1] = entries_metadata[sel[1] + 1][1]
                       /\ EndsWith(detail_text', "Advice:\n" \o r[7])]_vars

C9_Witness ==
    /\ event = "selected"
    /\ \E r \in entries :
         /\ r[3] = "Sad"
         /\ r[4] = "too" /\ r[5] = "much" /\ r[6] = "ALONE"
         /\ r[7] = mood_based["Sad"] \o OverwhelmedAdvice \o LonelyAdvice
         /\ EndsWith(detail_text, "Advice:\n" \o r[7])
         /\ advice_text # r[7]

\* C10: while the interface runs, its list equals the store's summaries,
\* newest first: position i holds the i-th most recent record, every
\* position resolves to a stored row, and no selection finds its row absent.
C10_ListInStep ==
    running
    => /\ Len(entries_metadata) = Cardinality(entries)
       /\ Len(listbox) = Len(entries_metadata)
       /\ \A i \in 1..Len(entries_metadata) :
            /\ \E r \in entries : entries_metadata[i] = Summary(r)
            /\ get_entry(entries, entries_metadata[i][1]) # None
            /\ Cardinality({r \in entries : r[1] > entries_metadata[i][1]}) = i - 1
       /\ event # "absent"

C10_Witness ==
    /\ running
    /\ event = "selected"
    /\ Len(entries_metadata) = 2
    /\ entries_metadata[1][1] = 2
    /\ entries_metadata[2][1] = 1
    /\ entries_metadata[1][3] # entries_metadata[2][3]

---------------------------------------------------------------------------
(* Properties of generate_advice *)

\* Whether text starts with prefix
StartsWith(text, prefix) ==
    /\ Len(prefix) <= Len(text)
    /\ SubSeq(text, 1, Len(prefix)) = prefix

\* What follows the first n characters of text
After(text, n) ==
    SubSeq(text, n + 1, Len(text))

\* The seven enumerated mood labels and the sentinel
KnownMoods ==
    {"Very Happy", "Happy", "Neutral", "Sad", "Very Sad", "Stressed",
     "Anxious", "Not specified"}

\* The base message the claims expect for a mood
ExpectedBase(mood) ==
    IF mood \in KnownMoods THEN mood_based[mood] ELSE mood_based["Not specified"]

\* C5: for each of the seven moods and the sentinel the result starts with
\* that mood's base message; for any other mood (None, unknown, another
\* letter case, empty) it starts with the sentinel's message; and what
\* follows the base message is what follows it for a recognized mood.
C5_BaseMessage ==
    adv_result # ""
    => /\ StartsWith(adv_result, ExpectedBase(adv_mood))
       /\ \A m \in KnownMoods : StartsWith(adv_result, mood_based[m])
                                => mood_based[m] = ExpectedBase(adv_mood)
       /\ After(adv_result, Len(ExpectedBase(adv_mood)))
          = After(generate_advice("Neutral", adv_text), Len(mood_based["Neutral"]))

C5_Witness ==
    /\ adv_mood = "sad"
    /\ adv_text = "ExhaustedALONE"
    /\ adv_result = mood_based["Not specified"] \o TiredAdvice \o LonelyAdvice

\* The keyword groups in their declared order, each with its paragraph
KeywordGroups ==
    << [keywords |-> {"tired", "exhausted"},
        paragraph |-> "You mentioned feeling tired. Try to prioritize rest tonight, even if it's just going to bed a bit earlier or taking a short break."],
       [keywords |-> {"overwhelmed", "too much"},
        paragraph |-> "Feeling overwhelmed is a signal to slow down. Break things into tiny steps and tackle them one at a time."],
       [keywords |-> {"lonely", "alone"},
        paragraph |-> "You also mentioned feeling alone. Consider reaching out to someone you trust or doing something comforting that makes you feel connected."],
       [keywords |-> {"proud", "accomplished"},
        paragraph |-> "You noticed something you're proud of-celebrate that! Acknowledge your progress instead of skipping past it."] >>

\* Whether a keyword of group g occurs in the lowercased text
GroupMatches(g, text) ==
    \E k \in KeywordGroups[g].keywords : In(k, lower(text))

\* The blank-line-separated paragraphs of the matching groups, from group g on
RECURSIVE ExpectedSuffix(_, _)
ExpectedSuffix(g, text) ==
    IF g > Len(KeywordGroups) THEN ""
    ELSE (IF GroupMatches(g, text)
          THEN "\n\n" \o KeywordGroups[g].paragraph ELSE "")
         \o ExpectedSuffix(g + 1, text)

\* C6: what follows the base message is, in the order tiredness, overwhelm,
\* loneliness, pride, a blank line and the paragraph of each group with a
\* keyword in the lowercased text, each at most once; with no keyword the
\* result is the base message alone; and "Sad" with "I felt tired and alone
\* today" gives the Sad message, the tiredness and the loneliness paragraph.
C6_KeywordSuffix ==
    adv_result # ""
    => /\ adv_result = ExpectedBase(adv_mood) \o ExpectedSuffix(1, adv_text)
       /\ (\A g \in 1..4 : ~GroupMatches(g, adv_text))
          => adv_result = ExpectedBase(adv_mood)
       /\ (adv_mood = "Sad" /\ adv_text = "I felt tired and alone today")
          => adv_result =
               "You're feeling sad today. Be gentle with yourself-try to do one kind thing for yourself and maybe reach out to someone you trust."
               \o "\n\n" \o KeywordGroups[1].paragraph
               \o "\n\n" \o KeywordGroups[3].paragraph

C6_Witness ==
    /\ adv_mood = "Sad"
    /\ adv_text = "Proud yet overwhelmed I felt tired and alone today"
    /\ adv_result = mood_based["Sad"] \o TiredAdvice \o OverwhelmedAdvice
                    \o LonelyAdvice \o ProudAdvice

=============================================================================
